---- MODULE Spec2Model ----
(***************************************************************************)
(* Zone RDF analysis (zone_RDF/md_rdf_analysis.py): MDTrajAnalyser.        *)
(* run_analysis loops over zone configurations; for each it calls          *)
(* analyze_rdf, which streams over a slice of the trajectory, re-selects   *)
(* the ions at every frame, accumulates per-frame RDF / cumulative profile  *)
(* / coordination number, averages them with numpy.mean and returns; the   *)
(* results are then written as CSV files and plots.                        *)
(*                                                                         *)
(* Floating point: numpy works in binary floating point with round to      *)
(* nearest, ties to even.  The model keeps that arithmetic but with a      *)
(* mantissa of Prec bits instead of 53, so that rounding is visible with   *)
(* small numbers.  A float is <<"fin", m, e>> (the value m * 2^e, m odd or *)
(* zero), <<"inf", 0, 0>> or <<"nan", 0, 0>>.  Only values >= 0 occur.     *)
(*                                                                         *)
(* Spec runs run_analysis on one configuration over any short trajectory;  *)
(* SpecBatch runs it on a list of configurations.                          *)
(***************************************************************************)
EXTENDS Integers, Sequences, FiniteSets, TLC

\* ---------------------------------------------------------------- bounds
MaxFrames == 3

MaxZones == 2

Prec == 4

\* ------------------------------------------------------ program constants
NBins == 150

CoordBin == 38

DefaultStart == 20000

DefaultEnd == 25000

ZMax == 10

ZMin == -10

PropZ == 80

\* ------------------------------------------------------------ arithmetic
RECURSIVE Pow2(_)
Pow2(k) == IF k <= 0 THEN 1 ELSE 2 * Pow2(k - 1)

Min2(a, b) == IF a <= b THEN a ELSE b

NaN == <<"nan", 0, 0>>

Inf == <<"inf", 0, 0>>

Zero == <<"fin", 0, 0>>

RECURSIVE Canon(_, _)
Canon(m, e) ==
    IF m = 0 THEN Zero
    ELSE IF m % 2 = 0 THEN Canon(m \div 2, e + 1)
    ELSE <<"fin", m, e>>

\* mantissas are below 2^Prec
MantissaEnd == Pow2(Prec)

MantissaMin == Pow2(Prec - 1)

\* the float nearest to (n / d) * 2^e, for n > 0 and d > 0
RECURSIVE RoundNearestEven(_, _, _)
RoundNearestEven(n, d, e) ==
    IF n >= d * MantissaEnd THEN RoundNearestEven(n, 2 * d, e + 1)
    ELSE IF n < d * MantissaMin THEN RoundNearestEven(2 * n, d, e - 1)
    ELSE LET q == n \div d
             r == n % d
             up == 2 * r > d \/ (2 * r = d /\ q % 2 = 1)
         IN  Canon(IF up THEN q + 1 ELSE q, e)

FromInt(k) == IF k = 0 THEN Zero ELSE RoundNearestEven(k, 1, 0)

\* float64 addition x + y
FAdd(x, y) ==
    IF x[1] = "nan" \/ y[1] = "nan" THEN NaN
    ELSE IF x[1] = "inf" \/ y[1] = "inf" THEN Inf
    ELSE IF y[2] = 0 THEN x
    ELSE IF x[2] = 0 THEN y
    ELSE LET e == Min2(x[3], y[3])
             n == x[2] * Pow2(x[3] - e) + y[2] * Pow2(y[3] - e)
         IN  RoundNearestEven(n, 1, e)

\* float64 true division of x by the integer k >= 0
FDivInt(x, k) ==
    IF x[1] = "nan" THEN NaN
    ELSE IF k = 0 THEN (IF x[1] = "fin" /\ x[2] = 0 THEN NaN ELSE Inf)
    ELSE IF x[1] = "inf" THEN Inf
    ELSE IF x[2] = 0 \/ k = 1 THEN x
    ELSE RoundNearestEven(x[2], k, x[3])

\* x <= y on floats that are not nan
FLeq(x, y) ==
    IF y[1] = "inf" THEN TRUE
    ELSE IF x[1] = "inf" THEN FALSE
    ELSE LET e == Min2(x[3], y[3])
         IN  x[2] * Pow2(x[3] - e) <= y[2] * Pow2(y[3] - e)

\* ------------------------------------------------------------ trajectory
\* Atoms of the structure file, with their names.
Atoms == {1, 2, 3}

AtomName == [a \in Atoms |-> IF a = 3 THEN "NA" ELSE "CL"]

\* A frame gives every atom its cylindrical coordinates (r, z) about the
\* pore axis and, for the partner species, the bins (0 .. NBins-1) in which
\* InterRDF finds a partner of that atom.
Frame(r1, z1, s1, r2, z2, s2) ==
    [r |-> <<r1, r2, 0>>, z |-> <<z1, z2, 0>>, shell |-> <<s1, s2, <<0, 38>> >>]

FrameA == Frame(0, 0, <<3>>, 3, 0, <<38, 39>>)

FrameB == Frame(0, 5, <<10, 38>>, 1, -5, <<0, 38, 149>>)

FrameC == Frame(3, 90, <<39>>, 2, 0, <<>>)

FrameD == Frame(2, 85, <<0, 0, 0, 0, 0, 0, 0>>, 3, 90, <<38>>)

FrameSet == {FrameA, FrameB, FrameC, FrameD}

\* ------------------------------------------------------------ selections
\* A selection string is the sequence of the predicates it joins by "and".
NameCL == [kind |-> "name", lo |-> 0, hi |-> 0]

PropZGt == [kind |-> "prop", lo |-> PropZ, hi |-> 0]

Cylayer(lower, upper) == [kind |-> "cylayer", lo |-> lower, hi |-> upper]

Satisfies(p, a, f) ==
    CASE p.kind = "name" -> AtomName[a] = "CL"
      [] p.kind = "prop" -> f.z[a] > p.lo
      [] p.kind = "cylayer" -> /\ p.lo <= f.r[a] /\ f.r[a] <= p.hi
                               /\ ZMin <= f.z[a] /\ f.z[a] <= ZMax

select_atoms(sel, f) ==
    {a \in Atoms : \A i \in 1..Len(sel) : Satisfies(sel[i], a, f)}

\* --------------------------------------------------------------- InterRDF
RECURSIVE Occurrences(_, _)
Occurrences(s, j) ==
    IF s = <<>> THEN 0
    ELSE (IF s[1] = j THEN 1 ELSE 0) + Occurrences(Tail(s), j)

RECURSIVE PairsInBin(_, _, _)
PairsInBin(S, f, j) ==
    IF S = {} THEN 0
    ELSE LET a == CHOOSE x \in S : TRUE
         IN  Occurrences(f.shell[a], j) + PairsInBin(S \ {a}, f, j)

\* rdf.count: the pair histogram of the ion group against the partners,
\* as an array of NBins floats (index j+1 holds bin j)
InterRDF_count(ions, f) ==
    [j \in 1..NBins |-> FromInt(PairsInBin(ions, f, j - 1))]

\* volume of the spherical shell of bin j, in units of (4/3) pi dr^3
ShellVol(j) == 3 * j * j + 3 * j + 1

\* rdf.rdf: the histogram normalised by shell volume and number of ions
InterRDF_rdf(ions, f) ==
    [j \in 1..NBins |->
        FDivInt(FromInt(PairsInBin(ions, f, j - 1)),
                ShellVol(j - 1) * Cardinality(ions))]

\* rdf.bins: the bin centres, in units of half a bin width
InterRDF_bins == [j \in 1..NBins |-> 2 * (j - 1) + 1]

\* ------------------------------------------------------------------ numpy
\* np.cumsum(a): out[j] = out[j-1] + a[j], the additions done from the
\* left.  np_cumsum_range gives out[lo..hi] from acc = out[lo-1].
RECURSIVE np_cumsum_range(_, _, _, _)
np_cumsum_join(a, left, lo, hi) ==
    left \o np_cumsum_range(a, left[Len(left)], lo, hi)

np_cumsum_range(a, acc, lo, hi) ==
    IF lo = hi THEN << IF lo = 1 THEN a[1] ELSE FAdd(acc, a[lo]) >>
    ELSE LET mid == (lo + hi) \div 2
         IN  np_cumsum_join(a, np_cumsum_range(a, acc, lo, mid), mid + 1, hi)

np_cumsum(a) == np_cumsum_range(a, Zero, 1, Len(a))

\* variant: the histogram itself, not its cumulative sum, is divided
CumulativeCount_noCumsum(count, n) ==
    [j \in 1..Len(count) |-> FDivInt(count[j], n)]

\* np.cumsum(rdf.count) / len(ions)
CumulativeCount(count, n) ==
    LET c == np_cumsum(count) IN [j \in 1..Len(c) |-> FDivInt(c[j], n)]

\* variant: the entry before bin 38 is read
CoordinationNumber_bin37(count) == count[CoordBin]

\* count[38]
CoordinationNumber(count) == count[CoordBin + 1]

\* add.reduce: the items are added one after the other, from the first
RECURSIVE np_add_reduce(_, _)
np_add_reduce(l, k) ==
    IF k = 1 THEN l[1] ELSE FAdd(np_add_reduce(l, k - 1), l[k])

None == [kind |-> "None", val |-> <<>>]

Scalar(x) == [kind |-> "scalar", val |-> <<x>>]

Array(a) == [kind |-> "array", val |-> a]

\* np.mean(l, axis=0) of a list of floats
np_mean_1d(l) ==
    IF Len(l) = 0 THEN Scalar(NaN)
    ELSE Scalar(FDivInt(np_add_reduce(l, Len(l)), Len(l)))

\* variant: np.sum in place of np.mean
np_mean_axis0_sum(l) ==
    IF Len(l) = 0 THEN Scalar(NaN)
    ELSE Array([j \in 1..Len(l[1]) |->
                  np_add_reduce([k \in 1..Len(l) |-> l[k][j]], Len(l))])

\* variant: the divisor is one more than the number of items
np_mean_axis0_offByOne(l) ==
    IF Len(l) = 0 THEN Scalar(NaN)
    ELSE Array([j \in 1..Len(l[1]) |->
                  FDivInt(np_add_reduce([k \in 1..Len(l) |-> l[k][j]], Len(l)),
                          Len(l) + 1)])

\* np.mean(l, axis=0) of a list of equally long arrays
np_mean_axis0(l) ==
    IF Len(l) = 0 THEN Scalar(NaN)
    ELSE Array([j \in 1..Len(l[1]) |->
                  FDivInt(np_add_reduce([k \in 1..Len(l) |-> l[k][j]], Len(l)),
                          Len(l))])

\* variant: the first frame of the slice is left out
SliceIndices_skipFirst(fr, n) == <<Min2(fr[1] + 1, n), Min2(fr[2], n)>>

\* the (start, stop) that trajectory[slice(*frame_range)] iterates over in
\* a trajectory of n frames: both ends are clipped to n
SliceIndices(fr, n) == <<Min2(fr[1], n), Min2(fr[2], n)>>

\* variant: the region predicate replaces the selection
RegionSelection_replace(sel, region) == <<Cylayer(region[1], region[2])>>

\* ion_selection += " and cylayer lower upper 10 -10"
RegionSelection(sel, region) == Append(sel, Cylayer(region[1], region[2]))

\* variant: no frame is skipped
SkipFrame_never(ions) == FALSE

\* len(ions) == 0: the frame is skipped
SkipFrame(ions) == Cardinality(ions) = 0

\* ----------------------------------------------------------------- state
VARIABLES
    n_frames,       \* number of frames of the trajectory file
    traj,           \* the frames, by frame index (the last ones of the file)
    configs,        \* the list of configuration dicts given to run_analysis
    pc,             \* position in run_analysis / analyze_rdf
    z,              \* index in configs of the zone being processed
    region_name,    \* run_analysis: region_name
    ion_selection,  \* analyze_rdf: the local selection string
    frame_range,    \* analyze_rdf: the local frame range
    fidx,           \* index of the next frame of the slice
    ions,           \* analyze_rdf: atoms selected at the current frame
    rdf_list,       \* analyze_rdf accumulators
    rdf_coord,
    rdf_cumu,
    bins,
    rdf_avg,        \* the averages
    coord_avg,
    cumu_avg,
    stdout,         \* lines printed
    returns,        \* the tuples analyze_rdf has returned, call after call
    files,          \* contents of the output directory
    error           \* the exception that left run_analysis, if any

vars == <<n_frames, traj, configs, pc, z, region_name, ion_selection,
          frame_range, fidx, ions, rdf_list, rdf_coord, rdf_cumu, bins,
          rdf_avg, coord_avg, cumu_avg, stdout, returns, files, error>>

inputs == <<n_frames, traj, configs>>

locals == <<ion_selection, frame_range, fidx, ions, rdf_list, rdf_coord,
            rdf_cumu, bins>>

averages == <<rdf_avg, coord_avg, cumu_avg>>

RegionNames == {"bulk", "center", "default"}

NoFiles ==
    [nm \in RegionNames |->
        [rdf_csv |-> <<>>, coordno_csv |-> <<>>, rdf_png |-> <<>>,
         cumuav_png |-> <<>>]]

\* Configuration dicts; a key that is absent is absent from the record.
ConfigSet(first) ==
    { [name |-> "bulk", ion_selection |-> <<NameCL, PropZGt>>,
       partner_selection |-> "name OW"],
      [name |-> "center", ion_selection |-> <<NameCL>>,
       partner_selection |-> "name OW", region |-> <<0, 1>>,
       frame_range |-> <<first, first + MaxFrames + 1>>],
      [ion_selection |-> <<NameCL>>, partner_selection |-> "name OW",
       frame_range |-> <<first + 1, first + 3>>],
      [name |-> "center", ion_selection |-> <<NameCL>>] }

\* the configurations that name their zone
NamedConfigSet(first) == {c \in ConfigSet(first) : "name" \in DOMAIN c}

\* the lists of at most n configurations of C
ConfigLists(C, n) == UNION { [1..k -> C] : k \in 1..n }

\* The state when run_analysis is called: a trajectory whose last frames
\* (at most MaxFrames of them, from index first on) are drawn from frames,
\* and a list of at most n configurations (named ones only, if named).
Start(firsts, frames, named, n) ==
    /\ \E first \in firsts : \E len \in 0..MaxFrames :
         /\ n_frames = first + len
         /\ traj \in [first..(first + len - 1) -> frames]
         /\ configs \in ConfigLists(IF named THEN NamedConfigSet(first)
                                               ELSE ConfigSet(first), n)
    /\ pc = "run_analysis"
    /\ z = 1
    /\ region_name = ""
    /\ ion_selection = <<>>
    /\ frame_range = <<0, 0>>
    /\ fidx = 0
    /\ ions = {}
    /\ rdf_list = <<>>
    /\ rdf_coord = <<>>
    /\ rdf_cumu = <<>>
    /\ bins = None
    /\ rdf_avg = None
    /\ coord_avg = None
    /\ cumu_avg = None
    /\ stdout = <<>>
    /\ returns = <<>>
    /\ files = NoFiles
    /\ error = ""

\* one zone, any trajectory
Init == Start({0, DefaultStart}, FrameSet, FALSE, 1)

\* a batch of zones over a long trajectory
InitBatch == Start({DefaultStart}, {FrameA, FrameC}, TRUE, MaxZones)

\* -------------------------------------------------------------- operations
RequiredKeys == {"ion_selection", "partner_selection"}

\* run_analysis, top of the loop: config['ion_selection'] or
\* config['partner_selection'] raises KeyError
ConfigKeyError ==
    /\ pc = "run_analysis"
    /\ z <= Len(configs)
    /\ ~ (RequiredKeys \subseteq DOMAIN configs[z])
    /\ pc' = "error"
    /\ error' = "KeyError"
    /\ UNCHANGED <<inputs, z, region_name, locals, averages, stdout, returns,
                   files>>

\* variant: the selection with the region predicate is stored back into the
\* configuration
analyze_rdf_enter_inplace ==
    /\ pc = "run_analysis"
    /\ z <= Len(configs)
    /\ RequiredKeys \subseteq DOMAIN configs[z]
    /\ LET config == configs[z]
           range == IF "frame_range" \in DOMAIN config
                      THEN config.frame_range
                      ELSE <<DefaultStart, DefaultEnd>>
       IN  /\ region_name' = IF "name" \in DOMAIN config
                               THEN config.name ELSE "default"
           /\ frame_range' = range
           /\ ion_selection' = IF "region" \in DOMAIN config
                                 THEN RegionSelection(config.ion_selection,
                                                      config.region)
                                 ELSE config.ion_selection
           /\ fidx' = SliceIndices(range, n_frames)[1]
           /\ configs' = IF "region" \in DOMAIN config
                            THEN [configs EXCEPT ![z].ion_selection =
                                    RegionSelection(config.ion_selection,
                                                    config.region)]
                            ELSE configs
    /\ rdf_list' = <<>>
    /\ rdf_coord' = <<>>
    /\ rdf_cumu' = <<>>
    /\ bins' = None
    /\ ions' = {}
    /\ pc' = "frame_loop"
    /\ UNCHANGED <<n_frames, traj, z, averages, stdout, returns, files, error>>

\* run_analysis, top of the loop, and the entry of analyze_rdf up to the
\* frame loop
analyze_rdf_enter ==
    /\ pc = "run_analysis"
    /\ z <= Len(configs)
    /\ RequiredKeys \subseteq DOMAIN configs[z]
    /\ LET config == configs[z]
           range == IF "frame_range" \in DOMAIN config
                      THEN config.frame_range
                      ELSE <<DefaultStart, DefaultEnd>>
       IN  /\ region_name' = IF "name" \in DOMAIN config
                               THEN config.name ELSE "default"
           /\ frame_range' = range
           /\ ion_selection' = IF "region" \in DOMAIN config
                                 THEN RegionSelection(config.ion_selection,
                                                      config.region)
                                 ELSE config.ion_selection
           /\ fidx' = SliceIndices(range, n_frames)[1]
    /\ rdf_list' = <<>>
    /\ rdf_coord' = <<>>
    /\ rdf_cumu' = <<>>
    /\ bins' = None
    /\ ions' = {}
    /\ pc' = "frame_loop"
    /\ UNCHANGED <<inputs, z, averages, stdout, returns, files, error>>

\* one iteration of the frame loop
analyze_rdf_frame ==
    /\ pc = "frame_loop"
    /\ fidx < SliceIndices(frame_range, n_frames)[2]
    /\ stdout' = Append(stdout, <<"frame", fidx>>)
    /\ LET f == traj[fidx]
           sel == select_atoms(ion_selection, f)
       IN  /\ ions' = sel
           /\ IF SkipFrame(sel)
                THEN UNCHANGED <<rdf_list, rdf_coord, rdf_cumu, bins>>
                ELSE LET count == CumulativeCount(InterRDF_count(sel, f),
                                                  Cardinality(sel))
                     IN  /\ bins' = IF bins = None
                                      THEN Array(InterRDF_bins) ELSE bins
                         /\ rdf_list' = Append(rdf_list, InterRDF_rdf(sel, f))
                         /\ rdf_coord' = Append(rdf_coord,
                                                CoordinationNumber(count))
                         /\ rdf_cumu' = Append(rdf_cumu, count)
    /\ fidx' = fidx + 1
    /\ UNCHANGED <<inputs, pc, z, region_name, ion_selection, frame_range,
                   averages, returns, files, error>>

\* after the loop: the averages, the print and the return
analyze_rdf_return ==
    /\ pc = "frame_loop"
    /\ fidx >= SliceIndices(frame_range, n_frames)[2]
    /\ rdf_avg' = np_mean_axis0(rdf_list)
    /\ coord_avg' = np_mean_1d(rdf_coord)
    /\ cumu_avg' = np_mean_axis0(rdf_cumu)
    /\ stdout' = Append(stdout, <<"avg", coord_avg'>>)
    /\ returns' = Append(returns,
                         [bins |-> bins, rdf_avg |-> rdf_avg',
                          cumu_avg |-> cumu_avg', rdf_coord |-> rdf_coord])
    /\ pc' = "rdf_csv"
    /\ UNCHANGED <<inputs, z, region_name, locals, files, error>>

\* variant: the error of a zone is caught and the next zone is processed
DataFrameError_skipZone ==
    /\ pc = "rdf_csv"
    /\ bins.kind # "array" /\ rdf_avg.kind # "array"
    /\ pc' = "run_analysis"
    /\ z' = z + 1
    /\ UNCHANGED <<inputs, region_name, locals, averages, stdout, returns,
                   files, error>>

\* pd.DataFrame of two values of which none is an array raises ValueError
DataFrameError ==
    /\ pc = "rdf_csv"
    /\ bins.kind # "array" /\ rdf_avg.kind # "array"
    /\ pc' = "error"
    /\ error' = "ValueError"
    /\ UNCHANGED <<inputs, z, region_name, locals, averages, stdout, returns,
                   files>>

\* pd.DataFrame({...}).to_csv(<name>_rdf.csv)
write_rdf_csv ==
    /\ pc = "rdf_csv"
    /\ ~ (bins.kind # "array" /\ rdf_avg.kind # "array")
    /\ files' = [files EXCEPT ![region_name].rdf_csv =
                    << [radius |-> bins, rdf |-> rdf_avg] >>]
    /\ pc' = "coordno_csv"
    /\ UNCHANGED <<inputs, z, region_name, locals, averages, stdout, returns,
                   error>>

\* np.savetxt(<name>_coordno.csv, rdf_coord)
write_coordno_csv ==
    /\ pc = "coordno_csv"
    /\ files' = [files EXCEPT ![region_name].coordno_csv = <<rdf_coord>>]
    /\ pc' = "plot"
    /\ UNCHANGED <<inputs, z, region_name, locals, averages, stdout, returns,
                   error>>

\* plot_results, and the step to the next configuration
plot_results ==
    /\ pc = "plot"
    /\ files' = [files EXCEPT
                   ![region_name].rdf_png = << [x |-> bins, y |-> rdf_avg] >>,
                   ![region_name].cumuav_png = << [x |-> bins, y |-> cumu_avg] >>]
    /\ z' = z + 1
    /\ pc' = "run_analysis"
    /\ UNCHANGED <<inputs, region_name, locals, averages, stdout, returns,
                   error>>

\* the loop over the configurations is exhausted: run_analysis returns
run_analysis_return ==
    /\ pc = "run_analysis"
    /\ z > Len(configs)
    /\ pc' = "done"
    /\ UNCHANGED <<inputs, z, region_name, locals, averages, stdout, returns,
                   files, error>>

Next ==
    \/ ConfigKeyError
    \/ analyze_rdf_enter
    \/ analyze_rdf_frame
    \/ analyze_rdf_return
    \/ DataFrameError
    \/ write_rdf_csv
    \/ write_coordno_csv
    \/ plot_results
    \/ run_analysis_return

Spec == Init /\ [][Next]_vars

SpecBatch == InitBatch /\ [][Next]_vars

\* ------------------------------------------------- notions for the claims
Last(s) == s[Len(s)]

Front(s) == SubSeq(s, 1, Len(s) - 1)

\* the frame numbers printed since the last "average" line
RECURSIVE FramesSince(_)
FramesSince(s) ==
    IF s = <<>> \/ Last(s)[1] = "avg" THEN <<>>
    ELSE Append(FramesSince(Front(s)), Last(s)[2])

InCall == pc \in {"frame_loop", "rdf_csv", "coordno_csv", "plot"}

Returned == pc \in {"rdf_csv", "coordno_csv", "plot"}

\* the frames the current call of analyze_rdf has visited so far
Visited ==
    IF Returned THEN FramesSince(Front(stdout)) ELSE FramesSince(stdout)

\* the frame range and the ion selection the configuration asks for
RangeOf(config) ==
    IF "frame_range" \in DOMAIN config THEN config.frame_range
    ELSE <<20000, 25000>>

ZoneSelection(config) ==
    IF "region" \in DOMAIN config
      THEN config.ion_selection \o
             << [kind |-> "cylayer", lo |-> config.region[1],
                 hi |-> config.region[2]] >>
      ELSE config.ion_selection

NameOf(config) == IF "name" \in DOMAIN config THEN config.name ELSE "default"

\* the frames of the trajectory with start <= i < end, in increasing order
FramesInRange(config) ==
    LET S == {i \in DOMAIN traj : RangeOf(config)[1] <= i /\ i < RangeOf(config)[2]}
    IN  [k \in 1..Cardinality(S) |->
            CHOOSE i \in S : Cardinality({h \in S : h < i}) = k - 1]

IonsAt(config, i) == select_atoms(ZoneSelection(config), traj[i])

\* the frames of vis in which at least one ion is selected, in order
RECURSIVE RetainedOf(_, _)
RetainedOf(config, vis) ==
    IF vis = <<>> THEN <<>>
    ELSE LET rest == RetainedOf(config, Front(vis))
         IN  IF IonsAt(config, Last(vis)) = {} THEN rest
             ELSE Append(rest, Last(vis))

\* number of ion-partner pairs of frame f in the bins 0 .. j
RECURSIVE PairsWithin(_, _, _)
PairsWithin(S, f, j) ==
    IF S = {} THEN 0
    ELSE LET a == CHOOSE x \in S : TRUE
         IN  Cardinality({k \in DOMAIN f.shell[a] : f.shell[a][k] <= j})
               + PairsWithin(S \ {a}, f, j)

NonDecreasing(a) == \A j \in 1..(Len(a) - 1) : FLeq(a[j], a[j + 1])

\* the mean of the floats of s as numpy takes it: the items summed from the
\* first to the last, the sum divided by their number
MeanOf(s) == FDivInt(np_add_reduce(s, Len(s)), Len(s))

\* the per-frame results of frame i for the zone of config, from the
\* trajectory
FrameRdf(config, i) == InterRDF_rdf(IonsAt(config, i), traj[i])

FrameCumu(config, i) ==
    CumulativeCount(InterRDF_count(IonsAt(config, i), traj[i]),
                    Cardinality(IonsAt(config, i)))

\* ------------------------------------------------------------------ claims

\* C1: if no frame of the range has an ion, analyze_rdf raises an explicit
\* empty-result error: it never returns a missing (None) bin array or
\* NaN averages to run_analysis.
C1_EmptyResultRaises ==
    Returned =>
        /\ bins.kind = "array"
        /\ rdf_avg.kind = "array"
        /\ cumu_avg.kind = "array"
        /\ coord_avg.val[1] # NaN

\* C2: a frame without ions appends nothing, a frame with ions appends one
\* entry to each of the three lists: the lists are always equally long, and
\* rdf_coord (the rows of <name>_coordno.csv) has one entry per frame of the
\* range that has ions, in frame order.
C2_OneEntryPerRetainedFrame ==
    /\ Len(rdf_list) = Len(rdf_coord)
    /\ Len(rdf_cumu) = Len(rdf_coord)
    /\ InCall =>
         LET kept == RetainedOf(configs[z], Visited)
         IN  /\ Len(rdf_coord) = Len(kept)
             /\ Len(rdf_coord) = Len(Visited)
                   - Cardinality({k \in 1..Len(Visited) :
                                     IonsAt(configs[z], Visited[k]) = {}})
             /\ \A k \in 1..Len(kept) :
                  /\ rdf_list[k] = FrameRdf(configs[z], kept[k])
                  /\ rdf_cumu[k] = FrameCumu(configs[z], kept[k])
                  /\ rdf_coord[k] = rdf_cumu[k][39]
    /\ pc = "plot" =>
         /\ files[NameOf(configs[z])].coordno_csv = <<rdf_coord>>
         /\ Len(rdf_coord) =
              Len(FramesInRange(configs[z]))
                - Cardinality({k \in 1..Len(FramesInRange(configs[z])) :
                     IonsAt(configs[z], FramesInRange(configs[z])[k]) = {}})

C2_Witness ==
    /\ pc = "plot"
    /\ Len(rdf_coord) >= 1
    /\ Len(rdf_coord) < Len(Visited)

\* C3: with at least one retained frame, the three averages are the
\* unweighted means over the retained frames only: each retained frame
\* counts once, whatever its number of ions, and the divisor is the number
\* of retained frames, not the number of frames of the range.
C3_MeanOverRetainedFrames ==
    (pc = "rdf_csv" /\ Len(rdf_coord) >= 1) =>
        LET kept == RetainedOf(configs[z], FramesInRange(configs[z]))
        IN  /\ Len(kept) >= 1
            /\ Len(rdf_list) = Len(kept)
            /\ \A k \in 1..Len(kept) :
                 /\ rdf_list[k] = FrameRdf(configs[z], kept[k])
                 /\ rdf_cumu[k] = FrameCumu(configs[z], kept[k])
                 /\ rdf_coord[k] = rdf_cumu[k][39]
            /\ rdf_avg.kind = "array" /\ cumu_avg.kind = "array"
            /\ \A j \in 1..NBins :
                 /\ rdf_avg.val[j] =
                      MeanOf([k \in 1..Len(kept) |-> rdf_list[k][j]])
                 /\ cumu_avg.val[j] =
                      MeanOf([k \in 1..Len(kept) |-> rdf_cumu[k][j]])
            /\ coord_avg.val[1] =
                 MeanOf([k \in 1..Len(kept) |-> rdf_coord[k]])
            /\ Last(returns).rdf_avg = rdf_avg
            /\ Last(returns).cumu_avg = cumu_avg

\* three frames in range, ions in the first and the third only
C3_Witness ==
    /\ pc = "rdf_csv"
    /\ Len(Visited) = 3
    /\ Len(rdf_coord) = 2
    /\ IonsAt(configs[z], Visited[2]) = {}
    /\ Cardinality(IonsAt(configs[z], Visited[1]))
         # Cardinality(IonsAt(configs[z], Visited[3]))

C6_FramesVisitedInOrder ==
    /\ pc = "frame_loop" =>
         /\ \E n \in 0..Len(FramesInRange(configs[z])) :
               Visited = SubSeq(FramesInRange(configs[z]), 1, n)
         /\ Visited # <<>> => ions = IonsAt(configs[z], Last(Visited))
    /\ Returned => Visited = FramesInRange(configs[z])

C6_Witness ==
    /\ Returned
    /\ "frame_range" \notin DOMAIN configs[z]
    /\ Len(Visited) >= 2
    /\ Visited[1] = 20000
    /\ Len(rdf_coord) = 1
    /\ IonsAt(configs[z], Visited[1]) # IonsAt(configs[z], Visited[2])

\* C7: every per-frame cumulative profile is non-decreasing in the bin
\* index, and so is the averaged cumulative profile.
C7_CumulativeMonotone ==
    /\ \A k \in 1..Len(rdf_cumu) :
         Len(rdf_cumu[k]) = NBins /\ NonDecreasing(rdf_cumu[k])
    /\ (Returned /\ cumu_avg.kind = "array") =>
         Len(cumu_avg.val) = NBins /\ NonDecreasing(cumu_avg.val)

C7_Witness ==
    /\ Returned
    /\ Len(rdf_cumu) >= 2
    /\ cumu_avg.kind = "array"
    /\ cumu_avg.val[1] # cumu_avg.val[NBins]
    /\ rdf_cumu[1] # rdf_cumu[2]

\* all the frames of the range are the same frame, and it has ions
IdenticalFrames ==
    /\ Returned
    /\ Visited # <<>>
    /\ \A k \in 1..Len(Visited) : traj[Visited[k]] = traj[Visited[1]]
    /\ IonsAt(configs[z], Visited[1]) # {}

\* C8 as stated: over N identical frames the mean RDF equals the RDF of one
\* of them, for every N.
C8_MeanOfIdenticalFramesExact ==
    IdenticalFrames =>
        /\ rdf_avg.kind = "array"
        /\ rdf_avg.val = FrameRdf(configs[z], Visited[1])

\* |x - y| * 2^(Prec-1) <= n * y
WithinRounding(x, y, n) ==
    /\ x[1] = "fin"
    /\ LET e == Min2(x[3], y[3])
           xs == x[2] * Pow2(x[3] - e)
           ys == y[2] * Pow2(y[3] - e)
       IN  (IF xs >= ys THEN xs - ys ELSE ys - xs) * MantissaMin <= n * ys

\* C8 amended: over N identical frames the mean RDF equals the RDF of one
\* of them exactly when N is 1 or 2, and for every N up to the rounding of
\* the N-term sum and of the division: a relative error of at most
\* N * 2^(1 - Prec) in every bin.
C8_MeanOfIdenticalFramesRounded ==
    IdenticalFrames =>
        /\ rdf_avg.kind = "array"
        /\ Len(Visited) <= 2 =>
              rdf_avg.val = FrameRdf(configs[z], Visited[1])
        /\ \A j \in 1..NBins :
              WithinRounding(rdf_avg.val[j],
                             FrameRdf(configs[z], Visited[1])[j], Len(Visited))

C8_Witness ==
    /\ IdenticalFrames
    /\ Len(Visited) = 3
    /\ rdf_avg.val # FrameRdf(configs[z], Visited[1])

\* C9: the coordination number recorded for a retained frame is that frame's
\* cumulative profile at bin 38: the number of pairs in the bins 0 .. 38
\* divided by the number of ions of the frame, which is at least 1.
C9_CoordinationAtBin38 ==
    InCall =>
        LET kept == RetainedOf(configs[z], Visited)
        IN  \A k \in 1..Len(rdf_coord) :
              LET sel == IonsAt(configs[z], kept[k])
              IN  /\ Cardinality(sel) >= 1
                  /\ rdf_coord[k] = rdf_cumu[k][39]
                  /\ rdf_coord[k] =
                       FDivInt(FromInt(PairsWithin(sel, traj[kept[k]], 38)),
                               Cardinality(sel))

C9_Witness ==
    /\ InCall
    /\ Len(rdf_coord) >= 1
    /\ rdf_coord[1] # rdf_cumu[1][38]
    /\ rdf_coord[1] # rdf_cumu[1][40]
    /\ Cardinality(IonsAt(configs[z], RetainedOf(configs[z], Visited)[1])) = 2

\* the four output files of a zone are there, written from ret
OutputsIn(dir, nm, ret) ==
    /\ dir[nm].rdf_csv = << [radius |-> ret.bins, rdf |-> ret.rdf_avg] >>
    /\ dir[nm].coordno_csv = <<ret.rdf_coord>>
    /\ dir[nm].rdf_png = << [x |-> ret.bins, y |-> ret.rdf_avg] >>
    /\ dir[nm].cumuav_png = << [x |-> ret.bins, y |-> ret.cumu_avg] >>

\* the last zone before zone k that has the name of zone j
LastNamed(j, k) ==
    CHOOSE i \in 1..(k - 1) :
        /\ NameOf(configs[i]) = NameOf(configs[j])
        /\ \A h \in (i + 1)..(k - 1) : NameOf(configs[h]) # NameOf(configs[j])

\* zones 1 .. z-1 are complete: each has returned, and its output files hold
\* what was written for it (or for the last complete zone of the same name)
EarlierZonesWritten ==
    /\ Len(returns) >= z - 1
    /\ \A j \in 1..(z - 1) :
         NameOf(configs[j]) # NameOf(configs[Min2(z, Len(configs))])
           \/ z > Len(configs) \/ pc \in {"run_analysis", "frame_loop",
                                          "rdf_csv", "error"}
           => OutputsIn(files, NameOf(configs[j]), returns[LastNamed(j, z)])

\* no file is there for a zone that is still to come
NoLaterZoneWritten ==
    \A nm \in RegionNames :
        files[nm] # NoFiles[nm] =>
            \E j \in 1..Min2(z, Len(configs)) : NameOf(configs[j]) = nm

\* C4: the zones are processed in list order, a zone's analysis and then its
\* output files complete before the next zone's analysis starts; when a step
\* of zone k raises, run_analysis stops there: no later zone is analysed or
\* written, and the files of the zones before k stay as they are.
C4_ZonesInOrderAbortOnError ==
    [][ /\ pc # "error"
        /\ z' \in {z, z + 1}
        /\ z' = z + 1 =>
             /\ pc = "plot"
             /\ Len(returns) = z
             /\ OutputsIn(files', NameOf(configs[z]), returns[z])
        /\ Len(returns') \in {Len(returns), Len(returns) + 1}
        /\ Len(returns') = Len(returns) + 1 => Len(returns') = z
        /\ pc' = "frame_loop" => Len(returns) = z - 1
        /\ pc' = "error" => /\ z' = z /\ files' = files /\ returns' = returns
                            /\ error' # ""
        /\ pc' = "done" => z > Len(configs) /\ error = ""
        /\ EarlierZonesWritten'
        /\ NoLaterZoneWritten'
      ]_vars

C4_Witness ==
    /\ pc = "error"
    /\ z = 2
    /\ Len(returns) = 2
    /\ files[NameOf(configs[1])].cumuav_png # <<>>
    /\ NameOf(configs[1]) # NameOf(configs[2])
    /\ files[NameOf(configs[2])] = NoFiles[NameOf(configs[2])]

\* C10: no call changes a configuration record, the region only changes the
\* local selection string, and two zones with the same configuration get
\* the same results wherever they stand in the batch.
C10_NoCrossZoneState ==
    [][ /\ configs' = configs
        /\ \A i, j \in 1..Len(returns') :
             configs[i] = configs[j] => returns'[i] = returns'[j]
        /\ Len(returns') > Len(returns) =>
             LET kept == RetainedOf(configs[z], FramesInRange(configs[z]))
             IN  /\ Len(returns') = z
                 /\ Len(returns'[z].rdf_coord) = Len(kept)
                 /\ \A k \in 1..Len(kept) :
                      returns'[z].rdf_coord[k] =
                         FrameCumu(configs[z], kept[k])[39]
      ]_vars

C10_Witness ==
    /\ Len(returns) = 2
    /\ configs[1] = configs[2]
    /\ "region" \in DOMAIN configs[1]
    /\ ion_selection # configs[2].ion_selection
    /\ Len(returns[2].rdf_coord) >= 1

====
